---- MODULE Spec2Model ----
(***************************************************************************)
(* skylight: leveled events, observers and the event pool.                 *)
(*                                                                         *)
(* The model has one Client object (the receiver "c"; a nil *Client is     *)
(* NilClient), a heap of Event instances handed out by eventPool, and the  *)
(* callers' threads.  Emit is split at the points where a handler runs, so *)
(* that concurrent Emits interleave between handler calls.                 *)
(*                                                                         *)
(* createdAt is written by newEvent and read only by String(); it is left  *)
(* out of the event record.  Identifiers come from gonanoid and are taken  *)
(* to be fresh: the k-th identifier is the number k, and "" is 0.          *)
(***************************************************************************)
EXTENDS Integers, Sequences, FiniteSets, Bags, TLC

(* ---------------------------------------------------------------- bounds *)
MaxInst == 3
MaxIds == 2
MaxObs == 2
NThreads == 3
MaxCopies == 2
MaxDispatched == 1

(* ---------------------------------------------------------------- levels *)
LevelNone == 0
LevelTrace == 1
LevelDebug == 2
LevelInfo == 3
LevelWarn == 4
LevelError == 5
LevelFatal == 6
LevelPanic == 7

Levels == LevelNone .. LevelPanic
RealLevels == LevelTrace .. LevelPanic

(* ---------------------------------------------------------------- values *)
(* A nil *Event is 0 and an Event instance is a number of Inst; a nil       *)
(* *Client is NilClient.                                                   *)
Nil == 0
NilClient == "nil"
TheClient == "c"
Inst == 1 .. MaxInst
(* Thread 0 is the sequential caller; 1 .. NThreads are the goroutines of   *)
(* the concurrent scenario.                                                *)
Goroutines == 1 .. NThreads
Threads == 0 .. NThreads

NoVal == "absent"
Keys == {"k", "b", "error", "parentID"}
NoFields == [k \in Keys |-> NoVal]

(* The zero value of Event, as eventPool.New builds it. *)
ZeroEvent ==
  [c |-> NilClient, closed |-> FALSE, id |-> 0, emittedAt |-> 0, level |-> LevelNone,
   message |-> "", topic |-> "", parentID |-> 0, fields |-> NoFields]

NoFrame == [e |-> Nil, hold |-> <<>>, obs |-> <<>>, i |-> 0, inv |-> <<>>]

(* fired is the bag of handler invocations <<event id, observer index>>.   *)
(* own[t] is what goroutine t was handed by its constructor call: the      *)
(* instance and the id it was given.                                       *)
NoEvent == [e |-> Nil, id |-> 0]

(* held[i] is the id of the event on instance i whose Emit returned with    *)
(* hold set while i was out of the pool and that has not been evicted      *)
(* since; 0 when there is none.  HoldRequested is the caller's argument.   *)
HoldRequested(hold) == hold = <<TRUE>>

(* What the sequential caller's most recent constructor or Emit call gave  *)
(* back: the result res, how the call ended (out) and, for an Emit that    *)
(* ran a pass, its receiver e, the observer list obs it ran against, the   *)
(* indices inv of the handlers it invoked and the number n of observers it *)
(* reached; for a constructor, old is the instance as Get returned it; for *)
(* Fields, arg is the caller's argument map as the call leaves it.         *)
(* Other calls leave NoCall.                                               *)
NoCall ==
  [op |-> "none", res |-> Nil, out |-> "", e |-> Nil, inv |-> <<>>, n |-> 0,
   obs |-> <<>>, old |-> ZeroEvent, arg |-> NoFields]
Call(op, res) == [NoCall EXCEPT !.op = op, !.res = res]

VARIABLES client, event, eventPool, allocated, nextId, clock, frame, fired,
          halted, last, held, pc, own

vars == <<client, event, eventPool, allocated, nextId, clock, frame, fired,
          halted, last, held, pc, own>>

(* ------------------------------------------------------------- observers *)
(* handler names what the observer's handler does: "h" only records the   *)
(* event, "emit" also calls e.Emit() on the event it is given, "add" also  *)
(* calls c.WithObserver(WildcardObserver(h)) on the event's client, and    *)
(* "logger" is the handler WithStandardLogger installs.                    *)
WildcardObserver ==
  [id |-> "", kind |-> "wildcard", topic |-> "", level |-> 0, handler |-> "h"]
TopicObserver(topic) ==
  [id |-> "", kind |-> "topic", topic |-> topic, level |-> 0, handler |-> "h"]
LevelObserver(level) ==
  [id |-> "", kind |-> "level", topic |-> "", level |-> level, handler |-> "h"]
LoggerObserver ==
  [id |-> "logger", kind |-> "logger", topic |-> "", level |-> 0, handler |-> "logger"]

(* WildcardObserver(func(e *Event) { e.Emit() }) and                       *)
(* WildcardObserver(func(e *Event) { c.WithObserver(WildcardObserver(h)) }) *)
ReentrantObserver == [WildcardObserver EXCEPT !.handler = "emit"]
AppendingObserver == [WildcardObserver EXCEPT !.handler = "add"]

WildcardCond(e) == TRUE
TopicCondFold(topic, e) ==
  (IF e.topic = "T" THEN "t" ELSE e.topic) = (IF topic = "T" THEN "t" ELSE topic)
TopicCond(topic, e) == e.topic = topic
LevelCondStrict(level, e) == e.level < level
LevelCond(level, e) == e.level <= level

(* o.cond(e) *)
ObserverCond(o, e) ==
  CASE o.kind = "wildcard" -> WildcardCond(e)
    [] o.kind = "topic" -> TopicCond(o.topic, e)
    [] o.kind = "level" -> LevelCond(o.level, e)
    [] o.kind = "logger" -> TRUE

(* The handler WithStandardLogger installs: fields aliases e.fields when   *)
(* that map is not empty, so writing the parentID key writes the event.    *)
LoggerFields(e) ==
  IF e.parentID # 0 /\ (\E k \in Keys : e.fields[k] # NoVal)
    THEN [e.fields EXCEPT !["parentID"] = ToString(e.parentID)]
    ELSE e.fields

(* logrus: Fatal ends the process (os.Exit), Panic panics. *)
LoggerOutcome(e) ==
  CASE e.level = LevelFatal -> "exit"
    [] e.level = LevelPanic -> "panic"
    [] OTHER -> "ok"

(* o.handler(e): the event as the handler leaves it, and how it ends. *)
HandlerEvent(o, e) ==
  IF o.kind = "logger" THEN [e EXCEPT !.fields = LoggerFields(e)] ELSE e

HandlerOutcome(o, e) ==
  IF o.kind = "logger" THEN LoggerOutcome(e) ELSE "ok"

(* ---------------------------------------------------------------- client *)
New == [level |-> LevelInfo, observers |-> <<>>]

WithObserver(c, o) == [c EXCEPT !.observers = c.observers \o o]

WithLevel(c, level) == [c EXCEPT !.level = level]

(* slices.ContainsFunc(c.observers, func(o) { return o.id == "logger" }) *)
hasLogger(c) == \E i \in 1 .. Len(c.observers) : c.observers[i].id = "logger"

WithStandardLoggerAlways(c) == WithObserver(c, <<LoggerObserver>>)
WithStandardLogger(c) ==
  IF hasLogger(c)
    THEN c
    ELSE WithObserver(c, <<LoggerObserver>>)

(* The options of option.go, and New(opts...) applying them in order. *)
OptWithLevel(l) == [opt |-> "WithLevel", level |-> l, o |-> <<>>]
OptWithObserver(o) == [opt |-> "WithObserver", level |-> 0, o |-> o]
OptWithStandardLogger == [opt |-> "WithStandardLogger", level |-> 0, o |-> <<>>]

ApplyOption(c, opt) ==
  CASE opt.opt = "WithLevel" -> WithLevel(c, opt.level)
    [] opt.opt = "WithObserver" -> WithObserver(c, opt.o)
    [] opt.opt = "WithStandardLogger" -> WithStandardLogger(c)

RECURSIVE ApplyOptions(_, _)
ApplyOptions(c, opts) ==
  IF opts = <<>> THEN c ELSE ApplyOptions(ApplyOption(c, Head(opts)), Tail(opts))

NewWith(opts) == ApplyOptions(New, opts)

(* ------------------------------------------------------------------ pool *)
PoolHas(pool, i) == pool[i] > 0

PoolGetKeep(pool, i) == pool
(* eventPool.Get() handing out instance i: a pooled one leaves the pool. *)
PoolGet(pool, i) == IF pool[i] > 0 THEN [pool EXCEPT ![i] = @ - 1] ELSE pool

(* eventPool.Put(e) *)
PoolPut(pool, i) == [pool EXCEPT ![i] = @ + 1]

(* What Get may return: any pooled instance, or a new one from New (the    *)
(* pool is empty, was cleared, or the item sits in another P's cache).     *)
FreshInst == IF allocated = Inst THEN {} ELSE {CHOOSE i \in Inst \ allocated : \A j \in Inst \ allocated : i <= j}
GetChoices == {i \in Inst : PoolHas(eventPool, i)} \cup FreshInst

(* ----------------------------------------------------------------- event *)
newEventRejectsNilOnly(level, c) == c = NilClient
newEventRejectsLE(level, c) == c = NilClient \/ level <= client.level
(* newEvent's filter: if c == nil || level < c.level { return nil } *)
newEventRejects(level, c) == c = NilClient \/ level < client.level

newEventResetKeepTopic(old, level, msg, c, id) ==
  [old EXCEPT !.closed = FALSE, !.id = id, !.emittedAt = 0, !.level = level,
              !.message = msg, !.parentID = 0, !.fields = NoFields, !.c = c]
(* newEvent's assignments to the instance Get returned. *)
newEventReset(old, level, msg, c, id) ==
  [old EXCEPT !.closed = FALSE, !.id = id, !.emittedAt = 0, !.level = level,
              !.message = msg, !.topic = "", !.parentID = 0, !.fields = NoFields,
              !.c = c]

MergeFieldsKeepOld(old, new) == [k \in Keys |-> IF old[k] # NoVal THEN old[k] ELSE new[k]]
(* Fields: a new map holding e.fields, then the argument's entries. *)
MergeFields(old, new) == [k \in Keys |-> IF new[k] # NoVal THEN new[k] ELSE old[k]]

FieldsArgMerged(old, new) == MergeFields(new, old)
(* Fields only ranges over its argument: the caller's map after the call. *)
FieldsArg(old, new) == new

(* Fields{k: v} *)
OneField(k, v) == [j \in Keys |-> IF j = k THEN v ELSE NoVal]

EmitIsNoopNilOnly(e) == e = Nil
(* Emit's early returns: e == nil, e.closed. *)
EmitIsNoop(e) == e = Nil \/ event[e].closed

EmitHoldsNever(hold) == FALSE
(* len(hold) > 0 && hold[0] *)
EmitHolds(hold) == Len(hold) > 0 /\ hold[1]


(* ------------------------------------------------------------ operations *)
Handles == allocated \cup {Nil}
Idle == ~halted /\ frame[0] = NoFrame

InitWith(c) ==
  /\ client = c
  /\ event = [i \in Inst |-> ZeroEvent]
  /\ eventPool = [i \in Inst |-> 0]
  /\ allocated = {}
  /\ nextId = 1
  /\ clock = 0
  /\ frame = [t \in Threads |-> NoFrame]
  /\ fired = EmptyBag
  /\ halted = FALSE
  /\ last = NoCall
  /\ held = [i \in Inst |-> 0]
  /\ pc = [t \in Goroutines |-> "start"]
  /\ own = [t \in Goroutines |-> NoEvent]

(* A method called on a nil receiver: with the method's nil check it      *)
(* returns nil and does nothing more; without it the first field access    *)
(* dereferences nil and the caller panics.                                 *)
ReturnsNil(op) ==
  /\ Idle
  /\ last' = [Call(op, Nil) EXCEPT !.out = "nil"]
  /\ UNCHANGED <<client, event, eventPool, allocated, nextId, clock, frame, fired, halted, held, pc, own>>

NilDereference(op) ==
  /\ Idle
  /\ last' = [Call(op, Nil) EXCEPT !.out = "nilpanic"]
  /\ UNCHANGED <<client, event, eventPool, allocated, nextId, clock, frame, fired, halted, held, pc, own>>

(* if c == nil { return nil } and if e == nil { return e } *)
clientIsNilNever(c) == FALSE
clientIsNil(c) == c = NilClient

receiverIsNilNever(e) == FALSE
receiverIsNil(e) == e = Nil

(* c.WithObserver(o), c.WithLevel(level), c.WithStandardLogger() on the    *)
(* client the model follows.                                               *)
ClientWithObserver(o) ==
  /\ Idle
  /\ Len(client.observers) < MaxObs
  /\ client' = WithObserver(client, <<o>>)
  /\ last' = NoCall
  /\ UNCHANGED <<event, eventPool, allocated, nextId, clock, frame, fired, halted, held, pc, own>>

ClientWithLevel(level) ==
  /\ Idle
  /\ client' = WithLevel(client, level)
  /\ last' = NoCall
  /\ UNCHANGED <<event, eventPool, allocated, nextId, clock, frame, fired, halted, held, pc, own>>

ClientWithStandardLogger ==
  /\ Idle
  /\ Len(WithStandardLogger(client).observers) <= MaxObs
  /\ client' = WithStandardLogger(client)
  /\ last' = [Call("WithStandardLogger", Nil) EXCEPT
                !.out = IF hasLogger(client) THEN "present" ELSE "added"]
  /\ UNCHANGED <<event, eventPool, allocated, nextId, clock, frame, fired, halted, held, pc, own>>

(* The three methods on any receiver, nil included. *)
CallWithObserver(c, o) ==
  IF clientIsNil(c) THEN ReturnsNil("WithObserver")
  ELSE IF c = NilClient THEN NilDereference("WithObserver")
  ELSE ClientWithObserver(o)

CallWithLevel(c, level) ==
  IF clientIsNil(c) THEN ReturnsNil("WithLevel")
  ELSE IF c = NilClient THEN NilDereference("WithLevel")
  ELSE ClientWithLevel(level)

CallWithStandardLogger(c) ==
  IF clientIsNil(c) THEN ReturnsNil("WithStandardLogger")
  ELSE IF c = NilClient THEN NilDereference("WithStandardLogger")
  ELSE ClientWithStandardLogger

(* newEvent on an accepted request, with i the instance Get returns. *)
newEventOn(i, level, msg, c) ==
  /\ event' = [event EXCEPT ![i] = newEventReset(event[i], level, msg, c, nextId)]
  /\ eventPool' = PoolGet(eventPool, i)
  /\ allocated' = allocated \cup {i}
  /\ nextId' = nextId + 1

(* c.Trace(..) .. c.Panicf(..): newEvent(level, msg, c) *)
newEvent(level, msg, c) ==
  /\ Idle
  /\ IF newEventRejects(level, c)
       THEN /\ last' = Call("newEvent", Nil)
            /\ UNCHANGED <<event, eventPool, allocated, nextId>>
       ELSE /\ nextId <= MaxIds
            /\ \E i \in GetChoices :
                 /\ newEventOn(i, level, msg, c)
                 /\ last' = [Call("newEvent", i) EXCEPT !.old = event[i]]
  /\ UNCHANGED <<client, clock, frame, fired, halted, held, pc, own>>

(* newChildEvent's filter: if e == nil || e.c == nil || level < e.c.level *)
newChildEventRejects(level, e) ==
  e = Nil \/ event[e].c = NilClient \/ level < client.level

(* e.Trace(..) .. e.Panicf(..): newChildEvent(level, msg, e); newEvent      *)
(* filters once more, and e.id is read after newEvent has returned.        *)
newChildEvent(level, msg, e) ==
  /\ Idle
  /\ IF newChildEventRejects(level, e) \/ newEventRejects(level, event[e].c)
       THEN /\ last' = Call("newChildEvent", Nil)
            /\ UNCHANGED <<event, eventPool, allocated, nextId>>
       ELSE /\ nextId <= MaxIds
            /\ \E i \in GetChoices :
                 LET reset == [event EXCEPT ![i] = newEventReset(event[i], level, msg, event[e].c, nextId)]
                 IN /\ event' = [reset EXCEPT ![i].parentID = reset[e].id]
                    /\ eventPool' = PoolGet(eventPool, i)
                    /\ allocated' = allocated \cup {i}
                    /\ nextId' = nextId + 1
                    /\ last' = [Call("newChildEvent", i) EXCEPT !.old = event[i]]
  /\ UNCHANGED <<client, clock, frame, fired, halted, held, pc, own>>

(* The fluent mutators: a nil receiver is returned as it is. *)
Mutate(e, new) ==
  IF receiverIsNil(e) THEN ReturnsNil("mutator")
  ELSE IF e = Nil THEN NilDereference("mutator")
  ELSE /\ Idle
       /\ event' = [event EXCEPT ![e] = new]
       /\ last' = NoCall
       /\ UNCHANGED <<client, eventPool, allocated, nextId, clock, frame, fired, halted, held, pc, own>>

Level(e, level) ==
  Mutate(e, IF e = Nil THEN ZeroEvent ELSE [event[e] EXCEPT !.level = level])

Message(e, msg) ==
  Mutate(e, IF e = Nil THEN ZeroEvent ELSE [event[e] EXCEPT !.message = msg])

Topic(e, topic) ==
  Mutate(e, IF e = Nil THEN ZeroEvent ELSE [event[e] EXCEPT !.topic = topic])

ParentID(e, id) ==
  Mutate(e, IF e = Nil THEN ZeroEvent ELSE [event[e] EXCEPT !.parentID = id])

Fields(e, fields) ==
  IF receiverIsNil(e) THEN ReturnsNil("Fields")
  ELSE IF e = Nil THEN NilDereference("Fields")
  ELSE /\ Idle
       /\ event' = [event EXCEPT ![e].fields = MergeFields(@, fields)]
       /\ last' = [Call("Fields", e) EXCEPT !.arg = FieldsArg(event[e].fields, fields)]
       /\ UNCHANGED <<client, eventPool, allocated, nextId, clock, frame, fired, halted, held, pc, own>>

(* e.Field(k, v) and e.WithError(err): Fields of a one-entry map. *)
Field(e, k, v) == Fields(e, OneField(k, v))

WithError(e, err) == Fields(e, OneField("error", err))

(* ------------------------------------------------------------------ Emit *)
(* Emit up to the loop: emittedAt = time.Now(), closed = true, and the     *)
(* range expression e.c.observers is evaluated once.                       *)
EmitBegin(t, e, hold) ==
  /\ clock' = clock + 1
  /\ event' = [event EXCEPT ![e].emittedAt = clock + 1, ![e].closed = TRUE]
  /\ frame' = [frame EXCEPT ![t] = [e |-> e, hold |-> hold, obs |-> client.observers,
                                    i |-> 1, inv |-> <<>>]]

(* The slice the range statement iterates: e.c.observers as it was when   *)
(* the loop began.                                                         *)
RangeObserversLive(t) == client.observers
RangeObservers(t) == frame[t].obs

(* One iteration of the loop: if o.cond(e) { o.handler(e) }. *)
Looping(t) == frame[t] # NoFrame /\ frame[t].i <= Len(RangeObservers(t))
LoopObserver(t) == RangeObservers(t)[frame[t].i]
LoopInvokesAll(t) == TRUE
LoopInvokes(t) == ObserverCond(LoopObserver(t), event[frame[t].e])
LoopOutcome(t) ==
  IF LoopInvokes(t) THEN HandlerOutcome(LoopObserver(t), event[frame[t].e]) ELSE "skip"

(* The loop has no recover: it goes on to the next observer only when the *)
(* condition was false or the handler returned.                            *)
LoopContinuesAfterPanic(out) == out \in {"skip", "ok", "panic"}
LoopContinues(out) == out \in {"skip", "ok"}

(* A handler that calls e.Emit() on the event it was given starts a       *)
(* nested pass unless that call returns early.  The nested pass stamps the *)
(* event again, invokes every matching observer of the client and, called  *)
(* without hold, puts the event into the pool.                             *)
Reenters(t) == LoopObserver(t).handler = "emit" /\ ~EmitIsNoop(frame[t].e)
NestedInvocations(e) ==
  LET matching == {j \in 1 .. Len(client.observers) :
                     ObserverCond(client.observers[j], event[e])}
  IN [p \in {<<event[e].id, j>> : j \in matching} |-> 1]

EmitLoop(t) ==
  LET f == frame[t]
      o == LoopObserver(t)
      out == LoopOutcome(t)
  IN /\ IF out = "skip"
          THEN UNCHANGED <<event, fired, client, eventPool, clock>>
          ELSE /\ event' = IF Reenters(t)
                             THEN [event EXCEPT ![f.e].emittedAt = clock + 1]
                             ELSE [event EXCEPT ![f.e] = HandlerEvent(o, @)]
               /\ fired' = IF Reenters(t)
                             THEN fired (+) SetToBag({<<event[f.e].id, f.i>>})
                                        (+) NestedInvocations(f.e)
                             ELSE fired (+) SetToBag({<<event[f.e].id, f.i>>})
               /\ client' = IF o.handler = "add"
                              THEN WithObserver(client, <<WildcardObserver>>)
                              ELSE client
               /\ eventPool' = IF Reenters(t) THEN PoolPut(eventPool, f.e) ELSE eventPool
               /\ clock' = IF Reenters(t) THEN clock + 1 ELSE clock
     /\ halted' = (out = "exit")
     /\ frame' = [frame EXCEPT ![t] =
                    IF LoopContinues(out)
                      THEN [f EXCEPT !.i = @ + 1,
                                     !.inv = IF out = "skip" THEN @ ELSE Append(@, f.i)]
                      ELSE NoFrame]

(* After the loop: return e when held, else eventPool.Put(e). *)
Returning(t) == frame[t] # NoFrame /\ frame[t].i > Len(RangeObservers(t))
EmitEnd(t) ==
  /\ eventPool' = IF EmitHolds(frame[t].hold) THEN eventPool
                  ELSE PoolPut(eventPool, frame[t].e)
  /\ frame' = [frame EXCEPT ![t] = NoFrame]

(* The sequential caller's e.Emit(hold...) *)
EmitCall(e, hold) ==
  /\ Idle
  /\ IF EmitIsNoop(e)
       THEN /\ last' = [Call("Emit", e) EXCEPT !.out = "noop"]
            /\ UNCHANGED <<event, clock, frame>>
       ELSE IF e = Nil
         THEN /\ last' = [Call("Emit", Nil) EXCEPT !.out = "nilpanic"]
              /\ UNCHANGED <<event, clock, frame>>
         ELSE /\ EmitBegin(0, e, hold)
              /\ last' = [Call("Emit", Nil) EXCEPT !.out = "running", !.e = e,
                                                 !.obs = client.observers]
  /\ UNCHANGED <<client, eventPool, allocated, nextId, fired, halted, held, pc, own>>

EmitDispatch ==
  /\ ~halted
  /\ Looping(0)
  /\ EmitLoop(0)
  /\ last' = IF LoopOutcome(0) \in {"panic", "exit"}
               THEN [last EXCEPT !.out = LoopOutcome(0), !.n = frame[0].i,
                                 !.inv = Append(frame[0].inv, frame[0].i)]
               ELSE last
  /\ UNCHANGED <<allocated, nextId, held, pc, own>>

EmitReturn ==
  /\ ~halted
  /\ Returning(0)
  /\ EmitEnd(0)
  /\ last' = [last EXCEPT !.out = "returned", !.res = frame[0].e,
                          !.n = Len(RangeObservers(0)), !.inv = frame[0].inv]
  /\ held' = IF HoldRequested(frame[0].hold) /\ eventPool[frame[0].e] = 0
              THEN [held EXCEPT ![frame[0].e] = event[frame[0].e].id]
              ELSE held
  /\ UNCHANGED <<client, event, allocated, nextId, clock, fired, halted, pc, own>>

(* e.Evict() *)
Evict(e) ==
  /\ Idle
  /\ IF e = Nil THEN UNCHANGED <<eventPool, held>>
     ELSE /\ eventPool[e] < MaxCopies
          /\ eventPool' = PoolPut(eventPool, e)
          /\ held' = [held EXCEPT ![e] = 0]
  /\ last' = [Call("Evict", Nil) EXCEPT !.e = e]
  /\ UNCHANGED <<client, event, allocated, nextId, clock, frame, fired, halted, pc, own>>

(* ------------------------------------------------------- specifications *)
(* Inputs of the sequential caller. *)
HoldArgs == {<<>>, <<TRUE>>, <<FALSE>>}

(* Spec: one caller using a client built by                                *)
(* New(WithStandardLogger(), WithObserver(WildcardObserver(h))), creating  *)
(* events and children, emitting and evicting them through any handle it   *)
(* was given, released or not.                                             *)
Init == InitWith(NewWith(<<OptWithStandardLogger, OptWithObserver(<<WildcardObserver>>)>>))

Lifecycle ==
  \/ \E level \in {LevelDebug, LevelInfo} : newEvent(level, "m1", TheClient)
  \/ \E e \in Handles : newChildEvent(LevelWarn, "m2", e)
  \/ \E e \in Handles, hold \in HoldArgs : EmitCall(e, hold)
  \/ EmitDispatch
  \/ EmitReturn
  \/ \E e \in Handles : Evict(e)

Next == Lifecycle

Spec == Init /\ [][Next]_vars

(* SpecReset: the same client and caller, who also sets topics and fields  *)
(* and releases events only through Emit.                                  *)
NextReset ==
  \/ newEvent(LevelInfo, "m1", TheClient)
  \/ \E e \in Handles : newChildEvent(LevelWarn, "m2", e)
  \/ \E e \in Handles : Topic(e, "t")
  \/ \E e \in Handles : Fields(e, [k \in Keys |-> IF k = "k" THEN "v1" ELSE NoVal])
  \/ \E e \in Handles, hold \in {<<>>, <<TRUE>>} : EmitCall(e, hold)
  \/ EmitDispatch
  \/ EmitReturn

SpecReset == Init /\ [][NextReset]_vars

(* SpecDispatch: one caller that builds its client's observer list with    *)
(* WithObserver and WithStandardLogger, creates events at every level,     *)
(* changes their level, and emits them.                                    *)
SomeObservers ==
  {WildcardObserver, LevelObserver(LevelWarn), LevelObserver(LevelPanic)}

InitDispatch == InitWith(New)

NextDispatch ==
  \/ \E o \in SomeObservers : nextId = 1 /\ ClientWithObserver(o)
  \/ nextId = 1 /\ ClientWithStandardLogger
  \/ \E level \in RealLevels : nextId <= MaxDispatched /\ newEvent(level, "m1", TheClient)
  \/ \E e \in Handles, level \in {LevelNone, LevelTrace, LevelDebug} : Level(e, level)
  \/ \E e \in Handles, hold \in {<<>>, <<TRUE>>} : EmitCall(e, hold)
  \/ EmitDispatch
  \/ EmitReturn

SpecDispatch == InitDispatch /\ [][NextDispatch]_vars

(* SpecFilter: one caller of a client built by                             *)
(* New(WithObserver(WildcardObserver(h))), who sets the minimum level,     *)
(* asks for events of every level on that client and on a nil client, and  *)
(* emits them.                                                             *)
InitFilter == InitWith(NewWith(<<OptWithObserver(<<WildcardObserver>>)>>))

NextFilter ==
  \/ \E level \in {LevelNone, LevelTrace, LevelInfo, LevelWarn, LevelPanic} :
       ClientWithLevel(level)
  \/ \E level \in RealLevels, c \in {TheClient, NilClient} : newEvent(level, "m1", c)
  \/ \E e \in Handles : EmitCall(e, <<>>)
  \/ EmitDispatch
  \/ EmitReturn

SpecFilter == InitFilter /\ [][NextFilter]_vars

(* SpecBuilder: one caller of the same client as Spec, building events     *)
(* with every fluent mutator, before and after emitting them.              *)
NextBuilder ==
  \/ nextId <= MaxDispatched /\ newEvent(LevelInfo, "m1", TheClient)
  \/ \E e \in Handles : Message(e, "m2")
  \/ \E e \in Handles : Level(e, LevelError)
  \/ \E e \in Handles : Topic(e, "t")
  \/ \E e \in Handles, id \in 1 .. MaxIds : ParentID(e, id)
  \/ \E e \in Handles : Fields(e, [k \in Keys |-> IF k = "k" THEN "v1" ELSE NoVal])
  \/ \E e \in Handles, hold \in HoldArgs : EmitCall(e, hold)
  \/ EmitDispatch
  \/ EmitReturn
  \/ \E e \in Handles : Evict(e)

SpecBuilder == Init /\ [][NextBuilder]_vars

(* SpecPool: NThreads goroutines share the client                          *)
(* New(WithStandardLogger(), WithObserver(WildcardObserver(h))); each      *)
(* creates one event, sets its topic and emits it without hold.  A         *)
(* goroutine whose Emit panics (the standard sink on a Panic event)        *)
(* recovers and stops.                                                     *)
InitPool ==
  InitWith(NewWith(<<OptWithStandardLogger, OptWithObserver(<<WildcardObserver>>)>>))

GoCreate(t, level) ==
  /\ ~halted
  /\ pc[t] = "start"
  /\ IF newEventRejects(level, TheClient)
       THEN /\ own' = [own EXCEPT ![t] = NoEvent]
            /\ UNCHANGED <<event, eventPool, allocated, nextId>>
       ELSE \E i \in GetChoices :
              /\ newEventOn(i, level, "m1", TheClient)
              /\ own' = [own EXCEPT ![t] = [e |-> i, id |-> nextId]]
  /\ pc' = [pc EXCEPT ![t] = "created"]
  /\ UNCHANGED <<client, clock, frame, fired, halted, last, held>>

GoTopic(t, topic) ==
  /\ ~halted
  /\ pc[t] = "created"
  /\ event' = IF own[t].e = Nil THEN event ELSE [event EXCEPT ![own[t].e].topic = topic]
  /\ pc' = [pc EXCEPT ![t] = "mutated"]
  /\ UNCHANGED <<client, eventPool, allocated, nextId, clock, frame, fired, halted, last, held, own>>

GoEmit(t) ==
  /\ ~halted
  /\ pc[t] = "mutated"
  /\ IF EmitIsNoop(own[t].e)
       THEN /\ pc' = [pc EXCEPT ![t] = "done"]
            /\ UNCHANGED <<event, clock, frame>>
       ELSE /\ EmitBegin(t, own[t].e, <<>>)
            /\ pc' = [pc EXCEPT ![t] = "emitting"]
  /\ UNCHANGED <<client, eventPool, allocated, nextId, fired, halted, last, held, own>>

GoDispatch(t) ==
  /\ ~halted
  /\ pc[t] = "emitting"
  /\ Looping(t)
  /\ EmitLoop(t)
  /\ pc' = [pc EXCEPT ![t] = IF LoopOutcome(t) = "panic" THEN "aborted" ELSE @]
  /\ UNCHANGED <<allocated, nextId, last, held, own>>

GoReturn(t) ==
  /\ ~halted
  /\ pc[t] = "emitting"
  /\ Returning(t)
  /\ EmitEnd(t)
  /\ pc' = [pc EXCEPT ![t] = "done"]
  /\ UNCHANGED <<client, event, allocated, nextId, clock, fired, halted, last, held, own>>

NextPool ==
  \E t \in Goroutines :
    \/ \E level \in {LevelInfo, LevelPanic} : GoCreate(t, level)
    \/ GoTopic(t, "t")
    \/ GoEmit(t)
    \/ GoDispatch(t)
    \/ GoReturn(t)

SpecPool == InitPool /\ [][NextPool]_vars

(* SpecFields: one caller of the same client as Spec, merging fields into  *)
(* events with Fields, Field and WithError, and emitting them.             *)
FieldMaps ==
  {[j \in Keys |-> CASE j = "k" -> v [] j = "b" -> w [] OTHER -> NoVal] :
     v \in {NoVal, "v1", "v2"}, w \in {NoVal, "v3"}}

NextFields ==
  \/ nextId <= MaxDispatched /\ newEvent(LevelInfo, "m1", TheClient)
  \/ \E e \in Handles, fields \in FieldMaps : Fields(e, fields)
  \/ \E e \in Handles, v \in {"v1", "v2"} : Field(e, "k", v)
  \/ \E e \in Handles : WithError(e, "err")
  \/ \E e \in Handles : EmitCall(e, <<TRUE>>)
  \/ EmitDispatch
  \/ EmitReturn

SpecFields == Init /\ [][NextFields]_vars

(* SpecClient: one caller configuring a client made by New() with          *)
(* WithObserver, WithLevel and WithStandardLogger in any order.            *)
NextClient ==
  \/ \E o \in SomeObservers \cup {TopicObserver("t")} : ClientWithObserver(o)
  \/ \E level \in Levels : ClientWithLevel(level)
  \/ ClientWithStandardLogger

SpecClient == InitDispatch /\ [][NextClient]_vars

(* SpecNil: one caller of a client built by                                *)
(* New(WithObserver(WildcardObserver(h))) whose chains run on events, on   *)
(* the nil a rejected constructor returned, and on a nil client.           *)
NextNil ==
  \/ \E c \in {TheClient, NilClient} : CallWithObserver(c, LevelObserver(LevelWarn))
  \/ \E c \in {TheClient, NilClient}, level \in {LevelInfo, LevelError} : CallWithLevel(c, level)
  \/ \E c \in {TheClient, NilClient} : CallWithStandardLogger(c)
  \/ \E c \in {TheClient, NilClient}, level \in {LevelDebug, LevelError} :
        nextId <= MaxDispatched /\ newEvent(level, "m1", c)
  \/ newChildEvent(LevelError, "m2", Nil)
  \/ Message(Nil, "m2")
  \/ Level(Nil, LevelWarn)
  \/ Topic(Nil, "t")
  \/ ParentID(Nil, 1)
  \/ Fields(Nil, OneField("k", "v1"))
  \/ Field(Nil, "b", "v3")
  \/ \E e \in Handles : WithError(e, "err")
  \/ \E e \in Handles, hold \in HoldArgs : EmitCall(e, hold)
  \/ EmitDispatch
  \/ EmitReturn
  \/ Evict(Nil)

SpecNil == InitFilter /\ [][NextNil]_vars

(* SpecTopic: one caller that registers wildcard and by-topic observers    *)
(* and the standard logger on a client made by New(), creates events, sets *)
(* their topic and emits them.                                             *)
TopicObservers == {WildcardObserver, TopicObserver("t"), TopicObserver("")}

NextTopic ==
  \/ \E o \in TopicObservers : nextId = 1 /\ ClientWithObserver(o)
  \/ nextId = 1 /\ ClientWithStandardLogger
  \/ \E level \in {LevelInfo, LevelPanic} :
        nextId <= MaxDispatched /\ newEvent(level, "m1", TheClient)
  \/ \E e \in allocated, topic \in {"t", "T", ""} : Topic(e, topic)
  \/ \E e \in allocated, hold \in {<<>>, <<TRUE>>} : EmitCall(e, hold)
  \/ EmitDispatch
  \/ EmitReturn

SpecTopic == InitDispatch /\ [][NextTopic]_vars

(* SpecHandlers: one caller of a client made by New() whose observers'     *)
(* handlers call back into the library: one emits the event it is given,   *)
(* one adds an observer to the client.  Observers are registered before    *)
(* and after events are created.                                           *)
HandlerObservers ==
  {WildcardObserver, ReentrantObserver, AppendingObserver, LevelObserver(LevelWarn)}

NextHandlers ==
  \/ \E o \in HandlerObservers : ClientWithObserver(o)
  \/ \E level \in {LevelInfo, LevelError} :
        nextId <= MaxDispatched /\ newEvent(level, "m1", TheClient)
  \/ \E e \in allocated, hold \in HoldArgs : EmitCall(e, hold)
  \/ EmitDispatch
  \/ EmitReturn

SpecHandlers == InitDispatch /\ [][NextHandlers]_vars

(* SpecChild: one caller of a client built by                              *)
(* New(WithObserver(WildcardObserver(h))), who sets the minimum level,     *)
(* creates an event, gives it a topic, emits it, and asks for children of  *)
(* it, of nil and of an Event that has no client.                          *)
Parents == Handles \cup FreshInst
ChildLevels == {LevelInfo, LevelError}

NextChild ==
  \/ \E level \in {LevelInfo, LevelWarn} : ClientWithLevel(level)
  \/ nextId <= MaxDispatched /\ newEvent(LevelError, "m1", TheClient)
  \/ \E e \in allocated : Topic(e, "t")
  \/ \E e \in Parents, level \in ChildLevels : newChildEvent(level, "m2", e)
  \/ \E e \in allocated, hold \in {<<>>, <<TRUE>>} : EmitCall(e, hold)
  \/ EmitDispatch
  \/ EmitReturn

SpecChild == InitFilter /\ [][NextChild]_vars

(* SpecLevel: one caller of the client of SpecFilter, who moves the        *)
(* client's minimum with WithLevel, creates events, changes their level    *)
(* with Level and emits them.                                              *)
NextLevel ==
  \/ \E level \in {LevelNone, LevelInfo, LevelError} : ClientWithLevel(level)
  \/ \E level \in {LevelDebug, LevelWarn, LevelError} : newEvent(level, "m1", TheClient)
  \/ \E e \in Handles, level \in {LevelNone, LevelTrace, LevelError} : Level(e, level)
  \/ \E e \in Handles : EmitCall(e, <<>>)
  \/ EmitDispatch
  \/ EmitReturn

SpecLevel == InitFilter /\ [][NextLevel]_vars

(* ---------------------------------------------------------------- claims *)
FiredIds == {p[1] : p \in BagToSet(fired)}
UnitField == [k \in Keys |-> IF k = "k" THEN "v1" ELSE NoVal]

PassEnded == last.op = "Emit" /\ last.out \in {"returned", "panic", "exit"}
Increasing(q) == \A j, k \in 1 .. Len(q) : j < k => q[j] < q[k]
Range(q) == {q[j] : j \in 1 .. Len(q)}

(* C1 as stated: after every Emit of an open event, the handlers invoked   *)
(* are those of all the observers whose condition holds of the event, each *)
(* once, in the order of the client's list.                                *)
C1_AllMatchingInOrder ==
  PassEnded =>
    /\ Increasing(last.inv)
    /\ Range(last.inv) = {i \in 1 .. Len(last.obs) : ObserverCond(last.obs[i], event[last.e])}

(* C1 amended: the same of the observers the pass reached; a pass that     *)
(* returns reached them all, and a pass reaches every observer unless the  *)
(* handler of an earlier one aborted it (a panic, or the process exiting). *)
C1_MatchingInOrderUntilAbort ==
  PassEnded =>
    /\ Increasing(last.inv)
    /\ Range(last.inv) = {i \in 1 .. last.n : ObserverCond(last.obs[i], event[last.e])}
    /\ last.n <= Len(last.obs)
    /\ last.out = "returned" => last.n = Len(last.obs)
    /\ last.out # "returned" => last.inv # <<>> /\ last.inv[Len(last.inv)] = last.n
    /\ \A j \in 1 .. Len(last.inv) :
         CopiesIn(<<event[last.e].id, last.inv[j]>>, fired) = 1

(* A pass over two observers has returned: the first did not match and was *)
(* skipped, the second matched and was invoked.                            *)
C1_Witness ==
  /\ PassEnded /\ last.out = "returned"
  /\ Len(last.obs) = 2
  /\ last.inv = <<2>>
  /\ ~ObserverCond(last.obs[1], event[last.e])

(* What a mutator can change of an event. *)
Content(e) == <<e.message, e.level, e.topic, e.parentID, e.fields>>

(* C9: a mutator called on a closed event that its caller still holds     *)
(* leaves message, level, topic, parentID and fields as they were.         *)
C9_ClosedIsFrozen ==
  [][\A e \in allocated :
       (/\ event[e].closed
        /\ held[e] = event[e].id
        /\ \/ Message(e, "m2")
           \/ Level(e, LevelError)
           \/ Topic(e, "t")
           \/ \E id \in 1 .. MaxIds : ParentID(e, id)
           \/ Fields(e, UnitField))
         => Content(event'[e]) = Content(event[e])]_vars

(* C10 as stated: in every Emit, a by-level observer with threshold T is   *)
(* invoked iff the event's level at dispatch is <= T.                      *)
C10_LevelObserverFires ==
  PassEnded =>
    \A i \in 1 .. Len(last.obs) :
      last.obs[i].kind = "level"
        => (i \in Range(last.inv) <=> event[last.e].level <= last.obs[i].level)

(* C10 amended: the same of the by-level observers the pass reached, that  *)
(* is unless the handler of an earlier observer aborted the pass.          *)
C10_LevelObserverFiresUntilAbort ==
  PassEnded =>
    /\ \A i \in 1 .. last.n :
         last.obs[i].kind = "level"
           => (i \in Range(last.inv) <=> event[last.e].level <= last.obs[i].level)
    /\ \A i \in (last.n + 1) .. Len(last.obs) : i \notin Range(last.inv)
    /\ last.n < Len(last.obs) =>
         \E j \in 1 .. last.n : HandlerOutcome(last.obs[j], event[last.e]) # "ok"

(* A pass has returned in which LevelObserver(LevelWarn) was invoked for   *)
(* an event of level Warn.                                                 *)
C10_Witness ==
  /\ PassEnded /\ last.out = "returned"
  /\ \E i \in Range(last.inv) :
       last.obs[i] = LevelObserver(LevelWarn) /\ event[last.e].level = LevelWarn

(* C2: Emit is idempotent.  No event is dispatched twice (no observer's    *)
(* handler is recorded twice for one event id); an Emit call that has      *)
(* returned leaves its event closed; and an Emit call on a closed event,   *)
(* with any hold argument, changes nothing (emittedAt, the pool and the    *)
(* handler log included), starts no pass and returns its receiver.         *)
C2_EmitIdempotent ==
  [][/\ \A p \in BagToSet(fired') : CopiesIn(p, fired') = 1
     /\ (last'.op = "Emit" /\ last'.out \in {"returned", "noop"} /\ last'.res # Nil)
          => event'[last'.res].closed
     /\ \A e \in allocated, hold \in HoldArgs :
          (event[e].closed /\ EmitCall(e, hold))
            => /\ UNCHANGED <<client, event, eventPool, allocated, nextId, clock,
                              frame, fired, halted, held>>
               /\ last'.res = e
               /\ last'.out = "noop"]_vars

(* The second Emit has just returned, on an event whose first Emit ran a   *)
(* pass and released the instance to the pool.                             *)
C2_Witness ==
  /\ last.op = "Emit" /\ last.out = "noop" /\ last.res # Nil
  /\ event[last.res].id \in FiredIds
  /\ eventPool[last.res] > 0

(* A goroutine holding an event it has created and not yet released. *)
Live(t) == pc[t] \in {"created", "mutated", "emitting"} /\ own[t].e # Nil

(* C3: while goroutines create, change and emit one event each, no two    *)
(* live events (created, not yet released) share an instance or an id and  *)
(* each still carries the id it was given; and once every goroutine has    *)
(* returned from its Emit, each wildcard observer's handler has been       *)
(* invoked once for each goroutine's event: NThreads times, no more.       *)
C3_PoolUnderConcurrency ==
  /\ \A t \in Goroutines :
       Live(t) => event[own[t].e].id = own[t].id
  /\ \A t, u \in Goroutines :
       (t # u /\ Live(t) /\ Live(u)) => own[t].e # own[u].e /\ own[t].id # own[u].id
  /\ (\A t \in Goroutines : pc[t] = "done")
       => \A i \in 1 .. Len(client.observers) :
            client.observers[i].kind = "wildcard"
              => /\ {p \in BagToSet(fired) : p[2] = i} = {<<own[t].id, i>> : t \in Goroutines}
                 /\ \A t \in Goroutines : CopiesIn(<<own[t].id, i>>, fired) = 1
                 /\ Cardinality({own[t].id : t \in Goroutines}) = NThreads

(* Every goroutine has finished, and one of them was handed an instance    *)
(* another had released.                                                   *)
C3_Witness ==
  /\ \A t \in Goroutines : pc[t] = "done"
  /\ \E t, u \in Goroutines : t # u /\ own[t].e = own[u].e

(* C4: a child created from parent P carries parentID equal to the id P    *)
(* had when the child was requested, also when P was already released.     *)
C4_ChildParentID ==
  [][\A e \in allocated :
       (newChildEvent(LevelWarn, "m2", e) /\ last'.res # Nil)
         => event'[last'.res].parentID = event[e].id]_vars

(* C5: newEvent returns nil exactly when the client is nil or the level   *)
(* asked for is below the client's minimum, and then takes nothing from    *)
(* the pool and assigns no id; with the default minimum (Info) it returns  *)
(* nil for Trace and Debug and an open event for Info .. Panic.            *)
C5_CreationFilter ==
  [][\A level \in RealLevels, c \in {TheClient, NilClient} :
       newEvent(level, "m1", c)
         => /\ last'.res = Nil <=> (c = NilClient \/ level < client.level)
            /\ last'.res = Nil => UNCHANGED <<eventPool, allocated, event, nextId>>
            /\ last'.res # Nil => ~event'[last'.res].closed /\ event'[last'.res].level = level
            /\ (c = TheClient /\ client.level = LevelInfo)
                 => (last'.res = Nil <=> level \in {LevelTrace, LevelDebug})]_vars

(* newEvent has just returned nil on a client whose minimum is above       *)
(* Trace, while an instance was waiting in the pool.                       *)
C5_Witness ==
  /\ last = Call("newEvent", Nil)
  /\ client.level > LevelTrace
  /\ \E i \in Inst : eventPool[i] > 0

(* C6: on a client whose minimum level is None, newEvent returns nil for   *)
(* every level Trace .. Panic.                                             *)
C6_NoneSuppressesAll ==
  [][\A level \in RealLevels :
       (client.level = LevelNone /\ newEvent(level, "m1", TheClient))
         => last'.res = Nil]_vars

(* An event as newEvent leaves it: open, unstamped, bare. *)
IsReset(e, level, msg) ==
  /\ ~e.closed /\ e.emittedAt = 0 /\ e.topic = "" /\ e.fields = NoFields
  /\ e.level = level /\ e.message = msg /\ e.c = TheClient

(* C7: every event newEvent returns is open, has zero emittedAt, no topic, *)
(* no parentID, no fields, the requested level and message, the creating   *)
(* client and an id no instance carries and no handler has seen; a child   *)
(* constructor's event is reset likewise, apart from the parentID it sets. *)
C7_ResetOnReuse ==
  [][/\ \A level \in RealLevels :
          (newEvent(level, "m1", TheClient) /\ last'.res # Nil)
            => /\ IsReset(event'[last'.res], level, "m1")
               /\ event'[last'.res].parentID = 0
               /\ event'[last'.res].id \notin FiredIds \cup {event[i].id : i \in Inst}
     /\ \A e \in allocated :
          (newChildEvent(LevelWarn, "m2", e) /\ last'.res # Nil)
            => /\ IsReset(event'[last'.res], LevelWarn, "m2")
               /\ event'[last'.res].id \notin FiredIds \cup {event[i].id : i \in Inst}]_vars

(* A constructor has just returned an instance whose earlier occupant had *)
(* a topic and fields, and had been emitted and dispatched.                *)
C7_Witness ==
  /\ last.op \in {"newEvent", "newChildEvent"} /\ last.res # Nil
  /\ last.old.closed /\ last.old.emittedAt # 0
  /\ last.old.topic = "t" /\ last.old.fields # NoFields
  /\ last.old.id \in FiredIds

(* C8: an instance that Emit(hold=true) left out of the pool stays out of  *)
(* the pool and keeps its event until Evict is called on it; and the pool  *)
(* gains an instance only by Evict or by the return of an Emit without     *)
(* hold, after the loop over the observers has ended.                      *)
C8_HoldAndRelease ==
  [][/\ \A i \in Inst :
          held'[i] # 0 => eventPool'[i] = 0 /\ event'[i].id = held'[i] /\ event'[i].closed
     /\ \A i \in Inst :
          eventPool'[i] > eventPool[i]
            => \/ Evict(i)
               \/ /\ EmitReturn
                  /\ frame[0].e = i
                  /\ frame[0].i > Len(frame[0].obs)
                  /\ ~HoldRequested(frame[0].hold)
     /\ \A i \in Inst :
          (frame[0].e = i /\ frame'[0].e = i) => eventPool'[i] = eventPool[i]]_vars

(* An instance is held and a later creation has returned another one. *)
C8_Witness ==
  \E i \in Inst :
    /\ held[i] # 0
    /\ last.op = "newEvent" /\ last.res # Nil /\ last.res # i
    /\ event[last.res].id > held[i]

(* C11: a Fields, Field or WithError call on an open event leaves, for     *)
(* each key, the call's value when the call supplied the key and the       *)
(* earlier value when it did not; {k: v1} merged with {k: v2, b: v3} is    *)
(* {k: v2, b: v3}; and the caller's argument map is as it was passed.      *)
C11_FieldMerge ==
  [][\A e \in allocated, fields \in FieldMaps \cup {OneField("error", "err")} :
       (~event[e].closed /\ Fields(e, fields))
         => /\ \A j \in Keys :
                 /\ fields[j] # NoVal => event'[e].fields[j] = fields[j]
                 /\ fields[j] = NoVal => event'[e].fields[j] = event[e].fields[j]
            /\ (event[e].fields = OneField("k", "v1")
                  /\ fields = [OneField("k", "v2") EXCEPT !["b"] = "v3"])
                 => event'[e].fields = [OneField("k", "v2") EXCEPT !["b"] = "v3"]
            /\ last'.arg = fields
            /\ last'.res = e]_vars

(* Fields has just merged {k: v2, b: v3} into an open event that already   *)
(* had an error field, which it keeps.                                     *)
C11_Witness ==
  /\ last.op = "Fields" /\ last.res # Nil
  /\ ~event[last.res].closed
  /\ last.arg = [OneField("k", "v2") EXCEPT !["b"] = "v3"]
  /\ event[last.res].fields = [last.arg EXCEPT !["error"] = "err"]

(* The positions of the observers with id "logger". *)
Loggers(c) == {i \in 1 .. Len(c.observers) : c.observers[i].id = "logger"}

(* C12: a client never has two observers with id "logger"; after a         *)
(* WithStandardLogger call it has exactly one; and a call made when one is *)
(* present leaves the observer list and the level as they were.            *)
C12_StandardLoggerOnce ==
  [][/\ Cardinality(Loggers(client')) <= 1
     /\ ClientWithStandardLogger
          => /\ Cardinality(Loggers(client')) = 1
             /\ Loggers(client) # {} => client' = client]_vars

(* WithStandardLogger has just been called on a client that already had    *)
(* the logger, after a WithObserver and a WithLevel call.                  *)
C12_Witness ==
  /\ last.op = "WithStandardLogger" /\ last.out = "present"
  /\ Loggers(client) = {2}
  /\ client.level # LevelInfo

(* What a call on a nil receiver must leave alone: the client, the events, *)
(* the pool, the dispatch passes and the handler log.                      *)
Untouched ==
  UNCHANGED <<client, event, eventPool, allocated, nextId, clock, frame, fired, halted, held>>

(* C13: on a nil event every mutator, Emit and every child constructor     *)
(* returns nil and Evict returns, and on a nil client WithObserver,        *)
(* WithLevel, WithStandardLogger and every event constructor return nil;   *)
(* none of these calls changes the client, an event, the pool or the       *)
(* handler log, and no call ever dereferences nil.                         *)
C13_NilSafety ==
  [][/\ last'.out # "nilpanic"
     /\ (\/ Message(Nil, "m2") \/ Level(Nil, LevelWarn) \/ Topic(Nil, "t")
         \/ ParentID(Nil, 1) \/ Fields(Nil, OneField("k", "v1"))
         \/ Field(Nil, "b", "v3") \/ WithError(Nil, "err")
         \/ CallWithObserver(NilClient, LevelObserver(LevelWarn))
         \/ CallWithStandardLogger(NilClient)
         \/ \E level \in Levels : CallWithLevel(NilClient, level))
          => Untouched /\ last'.res = Nil /\ last'.out = "nil"
     /\ (\/ newChildEvent(LevelError, "m2", Nil)
         \/ \E level \in RealLevels : newEvent(level, "m1", NilClient)
         \/ \E hold \in HoldArgs : EmitCall(Nil, hold))
          => Untouched /\ last'.res = Nil
     /\ Evict(Nil) => Untouched]_vars

(* A mutator has just returned nil for a nil receiver, on a client whose   *)
(* constructor rejected the level that was asked for.                      *)
C13_Witness ==
  /\ last.op = "mutator" /\ last.out = "nil"
  /\ client.level = LevelError
  /\ allocated = {}

(* C14 as stated: in every Emit, each wildcard observer is invoked, and a  *)
(* by-topic observer is invoked iff the event's topic at dispatch is       *)
(* exactly the observer's topic.                                           *)
C14_TopicObserverFires ==
  PassEnded =>
    \A i \in 1 .. Len(last.obs) :
      /\ last.obs[i].kind = "wildcard" => i \in Range(last.inv)
      /\ last.obs[i].kind = "topic"
           => (i \in Range(last.inv) <=> event[last.e].topic = last.obs[i].topic)

(* C14 amended: the same of the observers the pass reached, that is unless *)
(* the handler of an earlier observer aborted the pass; an observer the    *)
(* pass did not reach is not invoked.                                      *)
C14_TopicObserverFiresUntilAbort ==
  PassEnded =>
    /\ \A i \in 1 .. last.n :
         /\ last.obs[i].kind = "wildcard" => i \in Range(last.inv)
         /\ last.obs[i].kind = "topic"
              => (i \in Range(last.inv) <=> event[last.e].topic = last.obs[i].topic)
    /\ \A i \in (last.n + 1) .. Len(last.obs) : i \notin Range(last.inv)
    /\ last.n < Len(last.obs) =>
         \E j \in 1 .. last.n : HandlerOutcome(last.obs[j], event[last.e]) # "ok"

(* A pass has returned for an event with topic "T" in which the wildcard   *)
(* observer was invoked and the by-topic observer for "t" was not.         *)
C14_Witness ==
  /\ PassEnded /\ last.out = "returned"
  /\ event[last.e].topic = "T"
  /\ last.obs = <<TopicObserver("t"), WildcardObserver>>
  /\ last.inv = <<2>>

(* The observers of list obs whose condition holds of event record e. *)
Matching(obs, e) == {i \in 1 .. Len(obs) : ObserverCond(obs[i], e)}

(* C15: whenever the pass invokes a handler the event is closed and its    *)
(* emittedAt is stamped; a handler's own e.Emit() on that event changes    *)
(* neither the event, the pool nor the clock, invokes no handler and lets  *)
(* the pass go on; and a pass that returns has invoked each matching       *)
(* observer exactly once and no other.                                     *)
C15_ClosedBeforeHandlers ==
  [][/\ (EmitDispatch /\ LoopInvokes(0))
          => /\ event[frame[0].e].closed
             /\ event[frame[0].e].emittedAt # 0
             /\ LoopObserver(0).handler = "emit"
                  => /\ event' = event
                     /\ eventPool' = eventPool
                     /\ clock' = clock
                     /\ fired' = fired (+) SetToBag({<<event[frame[0].e].id, frame[0].i>>})
                     /\ frame'[0] = [frame[0] EXCEPT !.i = @ + 1,
                                                     !.inv = Append(@, frame[0].i)]
     /\ EmitReturn
          => \A i \in 1 .. Len(last.obs) :
               CopiesIn(<<event[frame[0].e].id, i>>, fired')
                 = IF i \in Matching(last.obs, event[frame[0].e]) THEN 1 ELSE 0]_vars

(* A pass has returned without hold in which a handler emitted the event   *)
(* again and the observer after it was invoked.                            *)
C15_Witness ==
  /\ PassEnded /\ last.out = "returned"
  /\ last.obs = <<ReentrantObserver, WildcardObserver>>
  /\ last.inv = <<1, 2>>
  /\ eventPool[last.e] = 1

(* C16: a pass runs against the client's observer list as it is when Emit  *)
(* is called, whenever the observers were added; an observer a handler     *)
(* appends during the pass is not invoked in it, and a pass that returns   *)
(* has reached exactly the observers of that list.                         *)
C16_ListCapturedAtEmit ==
  [][/\ \A e \in allocated, hold \in HoldArgs :
          (EmitCall(e, hold) /\ ~event[e].closed) => last'.obs = client.observers
     /\ EmitDispatch
          => /\ frame[0].i <= Len(last.obs)
             /\ LoopObserver(0) = last.obs[frame[0].i]
     /\ EmitReturn
          => /\ last'.n = Len(last.obs)
             /\ Range(last'.inv) = Matching(last.obs, event[frame[0].e])
             /\ \A p \in BagToSet(fired') :
                  p[1] = event[frame[0].e].id => p[2] <= Len(last.obs)]_vars

(* A pass has returned whose only observer's handler added a wildcard      *)
(* observer to the client, which the pass did not invoke.                  *)
C16_Witness ==
  /\ PassEnded /\ last.out = "returned"
  /\ last.obs = <<AppendingObserver>>
  /\ last.inv = <<1>>
  /\ client.observers = <<AppendingObserver, WildcardObserver>>
  /\ \A p \in BagToSet(fired) : p[2] = 1

(* What a child constructor is said to leave alone of its parent. *)
ParentState(e) == <<e.level, e.message, e.topic, e.fields, e.closed>>

(* C17 as stated: a child constructor on P returns nil exactly when P is   *)
(* nil, P has no client or the level is below the minimum of P's client;   *)
(* otherwise it returns an open event of P's client whose id is not P's,   *)
(* and P's level, message, topic, fields and closed flag are as before.    *)
C17_ChildFilter ==
  [][\A e \in Parents, level \in ChildLevels :
       newChildEvent(level, "m2", e)
         => /\ last'.res = Nil
                 <=> (e = Nil \/ event[e].c = NilClient \/ level < client.level)
            /\ last'.res # Nil
                 => /\ ~event'[last'.res].closed
                    /\ event'[last'.res].c = event[e].c
                    /\ event'[last'.res].id # event[e].id
                    /\ ParentState(event'[e]) = ParentState(event[e])]_vars

(* C17 amended: the same, with P's state as before when P's instance is    *)
(* not in the pool; a child of a released P may be built on P's instance.  *)
C17_ChildFilterOfUnreleased ==
  [][\A e \in Parents, level \in ChildLevels :
       newChildEvent(level, "m2", e)
         => /\ last'.res = Nil
                 <=> (e = Nil \/ event[e].c = NilClient \/ level < client.level)
            /\ last'.res # Nil
                 => /\ ~event'[last'.res].closed
                    /\ event'[last'.res].c = event[e].c
                    /\ event'[last'.res].id # event[e].id
                    /\ eventPool[e] = 0
                         => /\ ParentState(event'[e]) = ParentState(event[e])
                            /\ last'.res # e
                    /\ last'.res # e => ParentState(event'[e]) = ParentState(event[e])]_vars

(* A child has just been created from a held parent that has a topic, on   *)
(* a client whose minimum is the child's level.                            *)
C17_Witness ==
  /\ last.op = "newChildEvent" /\ last.res # Nil
  /\ client.level = LevelInfo /\ event[last.res].level = LevelInfo
  /\ \E e \in allocated \ {last.res} :
       /\ event[e].closed /\ event[e].topic = "t" /\ held[e] = event[e].id
       /\ event[last.res].parentID = event[e].id

(* C18 as stated: whatever the caller's create, Emit and Evict calls, no   *)
(* instance is in the pool more than once, and an instance a constructor   *)
(* has just handed out is not in the pool (where a second constructor      *)
(* call could take it while the first event is live).                      *)
C18_PoolNeverDuplicates ==
  /\ \A i \in Inst : eventPool[i] <= 1
  /\ (last.op \in {"newEvent", "newChildEvent"} /\ last.res # Nil)
       => eventPool[last.res] = 0

(* The pool holds no instance twice, and an instance in the pool is        *)
(* closed, not held and not in a dispatch pass.                            *)
PoolOk ==
  \A i \in Inst :
    /\ eventPool[i] <= 1
    /\ eventPool[i] = 1 => event[i].closed /\ held[i] = 0 /\ frame[0].e # i

(* Evict on the event that is held: emitted with hold and not evicted      *)
(* since.                                                                  *)
EvictsHeld(e) == e # Nil /\ held[e] # 0 /\ held[e] = event[e].id

(* C18 amended: as long as Evict is called only on an event that is held,  *)
(* and so once for it, no call puts an instance into the pool a second     *)
(* time, and an instance a constructor hands out is not in the pool.       *)
C18_PoolNeverDuplicatesWithoutMisuse ==
  [][(PoolOk /\ \A e \in allocated : Evict(e) => EvictsHeld(e))
       => /\ PoolOk'
          /\ (last'.op \in {"newEvent", "newChildEvent"} /\ last'.res # Nil)
               => eventPool'[last'.res] = 0]_vars

(* Evict has just put a held event's instance into the pool, where it is  *)
(* once, after an earlier event was created, emitted and released.         *)
C18_Witness ==
  /\ PoolOk
  /\ last.op = "Evict" /\ last.e # Nil
  /\ eventPool[last.e] = 1 /\ event[last.e].closed
  /\ event[last.e].id = 2 /\ FiredIds = {1, 2}

(* An event whose pass a handler's panic ended: closed, not in the pool,   *)
(* not held, and no pass is running.                                       *)
Aborted(e) ==
  /\ event[e].closed /\ eventPool[e] = 0 /\ held[e] = 0
  /\ frame[0] = NoFrame /\ ~halted

(* C19: when a handler panics the pass ends there: no observer after it is *)
(* invoked for the event, the event is closed and keeps its emittedAt, and *)
(* the instance is not put into the pool, whatever hold was; a later Emit  *)
(* on that event changes nothing and returns it.                           *)
C19_HandlerPanic ==
  [][/\ (EmitDispatch /\ LoopOutcome(0) = "panic")
          => /\ frame'[0] = NoFrame
             /\ last'.out = "panic"
             /\ event'[frame[0].e].closed
             /\ event'[frame[0].e].emittedAt = event[frame[0].e].emittedAt
             /\ event[frame[0].e].emittedAt # 0
             /\ eventPool' = eventPool /\ eventPool[frame[0].e] = 0
             /\ \A e \in allocated : e = frame[0].e => Aborted(e)'
     /\ (last.op = "Emit" /\ last.out = "panic")
          => /\ Aborted(last.e)
             /\ \A p \in BagToSet(fired) : p[1] = event[last.e].id => p[2] <= last.n
             /\ \A i \in (last.n + 1) .. Len(last.obs) :
                  ~BagIn(<<event[last.e].id, i>>, fired)
     /\ \A e \in allocated, hold \in HoldArgs :
          (Aborted(e) /\ EmitCall(e, hold))
            => /\ UNCHANGED <<client, event, eventPool, allocated, nextId, clock,
                              frame, fired, halted, held>>
               /\ last'.out = "noop" /\ last'.res = e]_vars

(* Emit has just returned an event as it was, whose pass had ended in the  *)
(* standard sink's panic: the wildcard observer registered after the       *)
(* logger was never invoked for it, and it is not in the pool.             *)
C19_Witness ==
  /\ last.op = "Emit" /\ last.out = "noop" /\ last.res # Nil
  /\ Aborted(last.res)
  /\ event[last.res].level = LevelPanic
  /\ client.observers = <<LoggerObserver, WildcardObserver>>
  /\ BagToSet(fired) = {<<event[last.res].id, 1>>}

(* C20: the standard sink's handler leaves the event it is given as it     *)
(* was, its field map included.                                            *)
C20_LoggerLeavesEvent ==
  [][(EmitDispatch /\ LoopInvokes(0) /\ LoopObserver(0).id = "logger")
       => event'[frame[0].e] = event[frame[0].e]]_vars

(* The event's level is a real severity at or above the client's minimum. *)
Accepted(e) == event[e].level \in RealLevels /\ event[e].level >= client.level

(* The events under construction and the one being dispatched. *)
Pending == ({e \in allocated : ~event[e].closed} \cup {frame[0].e}) \ {Nil}

(* A call of Event.Level or of Client.WithLevel. *)
LevelStep ==
  \/ \E e \in Handles, level \in Levels : Level(e, level)
  \/ \E level \in Levels : ClientWithLevel(level)

(* C21: every event a handler is invoked with has, at that moment, a level *)
(* that is a real severity and at least its client's minimum, whatever     *)
(* Level and WithLevel calls came between its creation and its Emit.       *)
C21_DispatchedLevelAccepted ==
  [][(EmitDispatch /\ LoopInvokes(0)) => Accepted(frame[0].e)]_vars

(* C21, amended: the level is checked once, by newEvent: the event it      *)
(* returns has a real severity at or above the client's minimum of that    *)
(* moment, and every event keeps that from creation through dispatch over  *)
(* every call other than Level and WithLevel; Emit checks nothing itself.  *)
C21_AcceptedUntilLevelChanges ==
  [][/\ \A level \in RealLevels :
          (newEvent(level, "m1", TheClient) /\ last'.res # Nil)
            => /\ level \in RealLevels /\ level >= client.level
               /\ event'[last'.res].level = level
               /\ last'.res \in Pending'
     /\ ((\A e \in Pending : Accepted(e)) /\ ~LevelStep)
          => (\A e \in Pending : Accepted(e))'
     /\ ((\A e \in Pending : Accepted(e)) /\ EmitDispatch /\ LoopInvokes(0))
          => Accepted(frame[0].e)]_vars

(* A handler has run on an Error event of a client whose minimum had been  *)
(* raised to Error, every event under construction being acceptable.       *)
C21_Witness ==
  /\ client.level = LevelError
  /\ \A e \in Pending : Accepted(e)
  /\ \E e \in allocated :
       /\ event[e].closed /\ event[e].level = LevelError
       /\ BagIn(<<event[e].id, 1>>, fired)
  /\ \E e \in Pending : ~event[e].closed

====
